---------------------------- MODULE Spec2Model ----------------------------
(***************************************************************************)
(* Model of src/api_server.py: the MIT candidate dashboard API.  Every     *)
(* request fetches two published CSV sheets, loads them into tables,       *)
(* classifies the candidate rows into buckets and assembles a JSON         *)
(* response.  Text is a sequence of one-character strings, so that         *)
(* str.strip, str.lower, str.replace and float() are computed character by *)
(* character.                                                              *)
(***************************************************************************)
EXTENDS Integers, Sequences, FiniteSets, TLC

VARIABLES
    sheet,      \* the published candidate CSV as a fetch finds it
    jobsSheet,  \* the published open-jobs CSV as a fetch finds it
    resp,       \* the response of the last request handled
    locals,     \* the bucket selections the last handler computed (row labels)
    rng,        \* the process-wide generator of the random module
    pc,         \* per worker thread: its place inside generate_mock_scores
    arg,        \* per worker thread: candidate_name
    scores,     \* per worker thread: the draws made so far
    returned,   \* per worker thread: the bundles its finished calls returned
    salaryIn,   \* the argument of the last parse_salary call
    salaryOut   \* the value that call returned

vars == <<sheet, jobsSheet, resp, locals, rng, pc, arg, scores, returned,
          salaryIn, salaryOut>>

----------------------------------------------------------------------------
(* Bounds of the model. *)

MaxRows == 2        \* data rows of the candidate sheet
MaxJobs == 1        \* data rows of the jobs sheet
MaxLen == 4         \* characters of a salary string handed to parse_salary
NumThreads == 2     \* requests handled at the same time
MaxCalls == 1       \* calls of generate_mock_scores per worker thread

----------------------------------------------------------------------------
(* Text literals of the source. *)

ColStatus == <<"S", "t", "a", "t", "u", "s">>
ColWeek == <<"W", "e", "e", "k">>
ColName == <<"M", "I", "T", " ", "N", "a", "m", "e">>
ColSite == <<"T", "r", "a", "i", "n", "i", "n", "g", " ", "S", "i", "t", "e">>
ColLocation == <<"L", "o", "c", "a", "t", "i", "o", "n">>
ColLevel == <<"L", "e", "v", "e", "l">>
ColSalary == <<"S", "a", "l", "a", "r", "y">>
ColJobTitle == <<"J", "o", "b", " ", "T", "i", "t", "l", "e">>
ColAccount == <<"A", "c", "c", "o", "u", "n", "t">>
ColCity == <<"C", "i", "t", "y">>
ColState == <<"S", "t", "a", "t", "e">>
ColVert == <<"V", "E", "R", "T">>
ColJvLink == <<"J", "V", " ", "L", "i", "n", "k">>
ColJvId == <<"J", "V", " ", "I", "D">>
UnnamedPrefix == <<"U", "n", "n", "a", "m", "e", "d">>
OfferPending == <<"o", "f", "f", "e", "r", " ", "p", "e", "n", "d", "i", "n", "g">>
OfferAccepted == <<"o", "f", "f", "e", "r", " ", "a", "c", "c", "e", "p", "t", "e", "d">>
FreeAgent == <<"f", "r", "e", "e", " ", "a", "g", "e", "n", "t", " ", "d", "i", "s", "c", "u", "s", "s", "i", "n", "g", " ", "o", "p", "p", "o", "r", "t", "u", "n", "i", "t", "y">>
Unassigned == <<"u", "n", "a", "s", "s", "i", "g", "n", "e", "d">>
Training == <<"t", "r", "a", "i", "n", "i", "n", "g">>
PositionIdentified == <<"p", "o", "s", "i", "t", "i", "o", "n", " ", "i", "d", "e", "n", "t", "i", "f", "i", "e", "d">>
\* The placeholder, U+2014 EM DASH, one character; written in ASCII here.
Dash == <<"&mdash;">>

NonIdentifiedStatuses == {FreeAgent, Unassigned, Training}
NotReadyStatuses == {PositionIdentified, OfferPending, OfferAccepted}
WeekThreshold == 6

----------------------------------------------------------------------------
(* Values of table cells and JSON fields: Python objects by type.  n / 10^e *)
(* is the number of an int, float or bool; s is the text of a str.         *)

NaN == [kind |-> "nan", s |-> <<>>, n |-> 0, e |-> 0]
Str(t) == [kind |-> "str", s |-> t, n |-> 0, e |-> 0]
IntV(i) == [kind |-> "int", s |-> <<>>, n |-> i, e |-> 0]
BoolV(b) == [kind |-> "bool", s |-> <<>>, n |-> IF b THEN 1 ELSE 0, e |-> 0]
OtherV == [kind |-> "other", s |-> <<>>, n |-> 0, e |-> 0]

RECURSIVE Pow10(_)
Pow10(k) == IF k = 0 THEN 1 ELSE 10 * Pow10(k - 1)

RECURSIVE TrimZeros(_, _)
\* A float has one value whatever zeros its literal ends in: 1.50 is 1.5.
TrimZeros(m, k) ==
    IF k > 0 /\ m % 10 = 0 THEN TrimZeros(m \div 10, k - 1)
    ELSE [kind |-> "float", s |-> <<>>, n |-> m, e |-> k]

FloatV(m, k) == TrimZeros(m, k)

----------------------------------------------------------------------------
(* Python's str methods. *)

Whitespace == {" ", "\t"}
UpperChars == <<"A", "B", "C", "D", "E", "F", "G", "H", "I", "J", "K", "L", "M",
                "N", "O", "P", "Q", "R", "S", "T", "U", "V", "W", "X", "Y", "Z">>
LowerChars == <<"a", "b", "c", "d", "e", "f", "g", "h", "i", "j", "k", "l", "m",
                "n", "o", "p", "q", "r", "s", "t", "u", "v", "w", "x", "y", "z">>
Digits == <<"0", "1", "2", "3", "4", "5", "6", "7", "8", "9">>

LowerTable ==
    [c \in {UpperChars[i] : i \in DOMAIN UpperChars} |->
        LowerChars[CHOOSE i \in DOMAIN UpperChars : UpperChars[i] = c]]

LowerChar(c) == IF c \in DOMAIN LowerTable THEN LowerTable[c] ELSE c

\* str.lower()
Lower(t) == [i \in DOMAIN t |-> LowerChar(t[i])]

RECURSIVE LStrip(_)
LStrip(t) == IF t # <<>> /\ Head(t) \in Whitespace THEN LStrip(Tail(t)) ELSE t

RECURSIVE RStrip(_)
RStrip(t) ==
    IF t # <<>> /\ t[Len(t)] \in Whitespace
    THEN RStrip(SubSeq(t, 1, Len(t) - 1)) ELSE t

\* str.strip()
Strip(t) == RStrip(LStrip(t))

\* str.replace(c, '')
Remove(t, c) == SelectSeq(t, LAMBDA x : x # c)

DigitTable ==
    [c \in {Digits[i] : i \in DOMAIN Digits} |->
        (CHOOSE i \in DOMAIN Digits : Digits[i] = c) - 1]

IsDigit(c) == c \in DOMAIN DigitTable
DigitVal(c) == DigitTable[c]

RECURSIVE DigitsVal(_)
DigitsVal(t) ==
    IF t = <<>> THEN 0
    ELSE 10 * DigitsVal(SubSeq(t, 1, Len(t) - 1)) + DigitVal(t[Len(t)])

AllDigits(t) == \A i \in DOMAIN t : IsDigit(t[i])

RECURSIVE NatText(_)
NatText(i) ==
    IF i < 10 THEN <<Digits[i + 1]>>
    ELSE NatText(i \div 10) \o <<Digits[(i % 10) + 1]>>

RECURSIVE PadLeft(_, _)
PadLeft(t, k) == IF Len(t) >= k THEN t ELSE PadLeft(<<"0">> \o t, k)

\* repr of a float of magnitude a / 10^e.
FloatText(a, e) ==
    NatText(a \div Pow10(e)) \o <<".">>
    \o (IF e = 0 THEN <<"0">> ELSE PadLeft(NatText(a % Pow10(e)), e))

\* str(x) of a Python object, as Series.astype(str) applies it.
PyStr(v) ==
    CASE v.kind = "nan" -> <<"n", "a", "n">>
      [] v.kind = "str" -> v.s
      [] v.kind = "int" ->
            IF v.n < 0 THEN <<"-">> \o NatText(-v.n) ELSE NatText(v.n)
      [] v.kind = "bool" ->
            IF v.n = 1 THEN <<"T", "r", "u", "e">>
            ELSE <<"F", "a", "l", "s", "e">>
      [] v.kind = "float" ->
            IF v.n < 0 THEN <<"-">> \o FloatText(-v.n, v.e) ELSE FloatText(v.n, v.e)
      [] OTHER -> <<"o", "b", "j", "e", "c", "t">>

----------------------------------------------------------------------------
(* Python's float(text), on text over digits, "-", "." and characters it   *)
(* rejects: [-] digits [. [digits]]  or  [-] . digits.                      *)

\* The digits of an unsigned literal u whose point, if any, is at place p.
FloatDigits(neg, u, dots, p) ==
    IF /\ Cardinality(dots) <= 1
       /\ AllDigits(SubSeq(u, 1, p - 1)) /\ AllDigits(SubSeq(u, p + 1, Len(u)))
       /\ Len(u) > Cardinality(dots)
    THEN [ok |-> TRUE,
          v |-> FloatV((IF neg THEN -1 ELSE 1)
                          * DigitsVal(SubSeq(u, 1, p - 1) \o SubSeq(u, p + 1, Len(u))),
                       Len(u) - p + (IF dots = {} THEN 1 ELSE 0))]
    ELSE [ok |-> FALSE, v |-> NaN]

FloatPoint(neg, u, dots) ==
    FloatDigits(neg, u, dots,
                IF dots = {} THEN Len(u) + 1 ELSE CHOOSE i \in dots : TRUE)

FloatUnsigned(neg, u) == FloatPoint(neg, u, {i \in DOMAIN u : u[i] = "."})

FloatParse(t) ==
    IF t # <<>> /\ Head(t) = "-" THEN FloatUnsigned(TRUE, Tail(t))
    ELSE FloatUnsigned(FALSE, t)

IsIntLiteral(t) ==
    IF t # <<>> /\ Head(t) = "-" THEN Tail(t) # <<>> /\ AllDigits(Tail(t))
    ELSE t # <<>> /\ AllDigits(t)

IntLiteral(t) ==
    IF Head(t) = "-" THEN -DigitsVal(Tail(t)) ELSE DigitsVal(t)

IsBoolLiteral(t) == Lower(t) \in {<<"t", "r", "u", "e">>, <<"f", "a", "l", "s", "e">>}

----------------------------------------------------------------------------
(* pandas: a published sheet is [ok, header, rows] of texts, the lines the *)
(* skiprows argument skips already gone; ok = FALSE is a fetch that fails. *)
(* A DataFrame is [columns, index, rows]: index keeps the labels of the    *)
(* sheet's rows through dropna, as pandas does.                            *)

EmptyDf == [columns |-> <<>>, index |-> <<>>, rows |-> <<>>]

\* DataFrame.empty: an axis of length 0.
IsEmpty(df) == Len(df.rows) = 0 \/ Len(df.columns) = 0

ColIndex(df, name) ==
    IF \E j \in DOMAIN df.columns : df.columns[j] = name
    THEN CHOOSE j \in DOMAIN df.columns : df.columns[j] = name
    ELSE 0

HasCol(df, name) == ColIndex(df, name) # 0

\* The dtype read_csv infers for a column whose cells at the places in
\* filled hold text; a blank cell is NaN.
InferFilled(cells, filled) ==
    IF \A i \in filled : IsIntLiteral(cells[i])
    THEN (IF filled = DOMAIN cells /\ filled # {} THEN "int" ELSE "float")
    ELSE IF \A i \in filled : IsBoolLiteral(cells[i]) THEN "bool"
    ELSE IF \A i \in filled : FloatParse(cells[i]).ok THEN "float"
    ELSE "object"

InferKind(cells) == InferFilled(cells, {i \in DOMAIN cells : cells[i] # <<>>})

ConvertCell(kind, cell) ==
    IF cell = <<>> THEN NaN
    ELSE CASE kind = "int" -> IntV(IntLiteral(cell))
           [] kind = "float" -> FloatParse(cell).v
           [] kind = "bool" -> BoolV(Lower(cell) = <<"t", "r", "u", "e">>)
           [] OTHER -> Str(cell)

ReadTyped(sh, kindOf) ==
    [columns |-> sh.header,
     index |-> [i \in DOMAIN sh.rows |-> i],
     rows |-> [i \in DOMAIN sh.rows |->
                [j \in DOMAIN sh.header |-> ConvertCell(kindOf[j], sh.rows[i][j])]]]

\* pd.read_csv: raises when the fetch fails or the sheet has no columns.
ReadCsv(sh) ==
    IF ~sh.ok \/ sh.header = <<>> THEN [raised |-> TRUE, df |-> EmptyDf]
    ELSE [raised |-> FALSE,
          df |-> ReadTyped(sh, [j \in DOMAIN sh.header |->
                    InferKind([i \in DOMAIN sh.rows |-> sh.rows[i][j]])])]

Take(df, is) ==
    [columns |-> df.columns,
     index |-> [k \in DOMAIN is |-> df.index[is[k]]],
     rows |-> [k \in DOMAIN is |-> df.rows[is[k]]]]

\* df[mask]: the rows Keep accepts, in order, each with its label.
Filter(df, mask) ==
    Take(df, SelectSeq([i \in DOMAIN df.rows |-> i], LAMBDA i : mask[i]))

\* DataFrame.dropna(how="all")
DropNaAll(df) ==
    Filter(df, [i \in DOMAIN df.rows |->
                  \E j \in DOMAIN df.rows[i] : df.rows[i][j].kind # "nan"])

\* DataFrame.fillna("")
FillNaEmpty(df) ==
    [df EXCEPT !.rows = [i \in DOMAIN df.rows |-> [j \in DOMAIN df.rows[i] |->
        IF df.rows[i][j].kind = "nan" THEN Str(<<>>) ELSE df.rows[i][j]]]]

TakeColumns(df, js) ==
    [columns |-> [k \in DOMAIN js |-> df.columns[js[k]]],
     index |-> df.index,
     rows |-> [i \in DOMAIN df.rows |-> [k \in DOMAIN js |-> df.rows[i][js[k]]]]]

\* df.loc[:, keep] and df.drop(columns=...): the columns Keep accepts.
SelectColumns(df, mask) ==
    TakeColumns(df, SelectSeq([j \in DOMAIN df.columns |-> j], LAMBDA j : mask[j]))

\* .astype(str).str.strip().str.lower()
\* The normalisation without str.strip.
NormalizeStatusNoStrip(v) == Str(Lower(PyStr(v)))

NormalizeStatus(v) == Str(Lower(Strip(PyStr(v))))

\* df.columns = [c.strip() ...]
StripColumns(df) ==
    [df EXCEPT !.columns = [j \in DOMAIN df.columns |-> Strip(df.columns[j])]]

\* df["Status"] = df["Status"].astype(str).str.strip().str.lower(); st is the
\* place of the Status column, 0 when there is none (KeyError).
SetStatus(df, st) ==
    IF st = 0
    THEN [raised |-> TRUE, exc |-> "'Status'", df |-> EmptyDf, source |-> ""]
    ELSE [raised |-> FALSE, exc |-> "",
          df |-> [df EXCEPT !.rows = [i \in DOMAIN df.rows |->
                    [df.rows[i] EXCEPT ![st] = NormalizeStatus(@)]]],
          source |-> "Google Sheets"]

Normalized(df) == SetStatus(df, ColIndex(df, ColStatus))

LoadFrom(r) ==
    IF r.raised
    THEN [raised |-> FALSE, exc |-> "", df |-> EmptyDf, source |-> "Error"]
    ELSE Normalized(StripColumns(DropNaAll(r.df)))

\* load_data: [raised, exc, df, source]; raised = TRUE is an exception that
\* leaves load_data for its caller.
load_data(sh) == LoadFrom(ReadCsv(sh))

IsPrefix(p, t) == Len(p) <= Len(t) /\ SubSeq(t, 1, Len(p)) = p

\* jobs_df.loc[:, ~jobs_df.columns.str.contains("^Unnamed")]
DropUnnamed(df) ==
    SelectColumns(df, [j \in DOMAIN df.columns |->
                         ~IsPrefix(UnnamedPrefix, df.columns[j])])

\* jobs_df.drop(columns=[...], errors="ignore")
DropJv(df) ==
    SelectColumns(df, [j \in DOMAIN df.columns |->
                         df.columns[j] \notin {ColJvLink, ColJvId}])

JobsFrom(r) ==
    IF r.raised THEN EmptyDf
    ELSE FillNaEmpty(DropNaAll(DropJv(DropUnnamed(r.df))))

\* load_jobs_data: every step is inside the try, so it returns a table always.
load_jobs_data(sh) == JobsFrom(ReadCsv(sh))

----------------------------------------------------------------------------
(* parse_salary *)

Zero == IntV(0)

\* float(x) of an int, float or bool.
ToFloat(v) == FloatV(v.n, v.e)

\* The except branch returning a sentinel instead of 0.
ParsedOrSentinel(f) == IF f.ok THEN f.v ELSE IntV(0 - 1)

ParsedOrZero(f) == IF f.ok THEN f.v ELSE Zero

parse_salary(v) ==
    IF v.kind = "nan" THEN Zero
    ELSE IF v.kind \in {"int", "float", "bool"} THEN ToFloat(v)
    ELSE IF v.kind = "str"
    THEN ParsedOrZero(FloatParse(Strip(Remove(Remove(v.s, "$"), ","))))
    ELSE Zero

----------------------------------------------------------------------------
(* generate_mock_scores.  The generator of the random module is [seed, k]: *)
(* the seed it was last seeded with and the draws made since, and a draw   *)
(* is a fixed function of both, which is what the program relies on; the   *)
(* Mersenne Twister's own arithmetic is not reproduced.                    *)

JaneDoe == <<"J", "a", "n", "e", " ", "D", "o", "e">>
JohnSmith == <<"J", "o", "h", "n", " ", "S", "m", "i", "t", "h">>
BobRay == <<"B", "o", "b", " ", "R", "a", "y">>

\* int(hashlib.md5(name.encode()).hexdigest()[:8], 16), for the names used.
Md5Seed(name) ==
    CASE name = JaneDoe -> 472326215
      [] name = JohnSmith -> 1628910141
      [] name = BobRay -> 114175335

\* Seeds random.seed() may take from the operating system's entropy.
EntropySeeds == {20261105, 918273645}

Seeded(x) == [seed |-> x, k |-> 0]

RawDraw(g) == ((g.seed % 9973) * (g.k + 3)) + ((g.seed \div 9973) % 97) + (31 * g.k)

\* random.randint(a, b)
RandInt(g, a, b) == a + (RawDraw(g) % (b - a + 1))

\* random.choice(seq)
RandChoice(g, seq) == seq[1 + (RawDraw(g) % Len(seq))]

Advance(g) == [g EXCEPT !.k = @ + 1]

Rankings == <<"Top 10%", "Top 15%", "Top 20%", "Top 25%">>

\* The draw that statement number d of the scores dictionary makes.
DrawOf(g, d) ==
    CASE d = 1 -> RandInt(g, 65, 90)
      [] d = 2 -> RandInt(g, 70, 95)
      [] d = 3 -> RandInt(g, 75, 95)
      [] d = 4 -> RandInt(g, 70, 90)
      [] d = 5 -> RandChoice(g, Rankings)

NumDraws == 5

RECURSIVE DrawAll(_, _)
DrawAll(g, d) ==
    IF d > NumDraws THEN <<>> ELSE <<DrawOf(g, d)>> \o DrawAll(Advance(g), d + 1)

Bundle(draws) ==
    [qbr_score |-> draws[1], assessment_score |-> draws[2],
     performance_score |-> draws[3], confidence_score |-> draws[4],
     skill_ranking |-> draws[5]]

\* generate_mock_scores run with no other thread touching the generator.
generate_mock_scores(name) == Bundle(DrawAll(Seeded(Md5Seed(name)), 1))

----------------------------------------------------------------------------
(* The candidate classifier: the masks the endpoints filter by. *)

StatusOf(df, row) == row[ColIndex(df, ColStatus)].s
WeekOf(df, row) == row[ColIndex(df, ColWeek)]

\* isinstance(x, (int, float)): bool is a subclass of int, NaN is a float.
IsIntOrFloat(v) == v.kind \in {"int", "float", "bool", "nan"}

\* x > k and x <= k of Python numbers; every comparison with NaN is False.
Gt(v, k) == v.kind # "nan" /\ v.n > k * Pow10(v.e)
Le(v, k) == v.kind # "nan" /\ v.n <= k * Pow10(v.e)

OfferPendingRows(df) ==
    Filter(df, [i \in DOMAIN df.rows |-> StatusOf(df, df.rows[i]) = OfferPending])

OfferAcceptedRows(df) ==
    Filter(df, [i \in DOMAIN df.rows |-> StatusOf(df, df.rows[i]) = OfferAccepted])

\* The non-identified selection without the candidates in training.
NonIdentifiedNoTraining(df) ==
    Filter(df, [i \in DOMAIN df.rows |->
                  StatusOf(df, df.rows[i]) \in {FreeAgent, Unassigned}])

NonIdentifiedRows(df) ==
    Filter(df, [i \in DOMAIN df.rows |->
                  StatusOf(df, df.rows[i]) \in NonIdentifiedStatuses])

\* The ready selection on the week alone, with no status excluded.
ReadyForPlacementAnyStatus(df) ==
    Filter(df, [i \in DOMAIN df.rows |->
        /\ IsIntOrFloat(WeekOf(df, df.rows[i]))
        /\ Gt(WeekOf(df, df.rows[i]), WeekThreshold)])

ReadyForPlacementRows(df) ==
    Filter(df, [i \in DOMAIN df.rows |->
        /\ IsIntOrFloat(WeekOf(df, df.rows[i]))
        /\ Gt(WeekOf(df, df.rows[i]), WeekThreshold)
        /\ StatusOf(df, df.rows[i]) \notin NotReadyStatuses])

InTrainingRows(df) ==
    Filter(df, [i \in DOMAIN df.rows |->
        /\ StatusOf(df, df.rows[i]) = Training
        /\ IsIntOrFloat(WeekOf(df, df.rows[i]))
        /\ Le(WeekOf(df, df.rows[i]), WeekThreshold)])

\* pd.concat([a, b])
Concat(a, b) ==
    [columns |-> a.columns, index |-> a.index \o b.index, rows |-> a.rows \o b.rows]

Labels(df) == {df.index[i] : i \in DOMAIN df.index}

----------------------------------------------------------------------------
(* The response assembler. *)

\* computed names the selections a handler made; listed is the labels of the
\* rows its loop turned into records, in order.
NoLocals == [computed |-> {}, offer_pending |-> {}, offer_accepted |-> {},
             non_identified |-> {}, ready_for_placement |-> {}, in_training |-> {},
             listed |-> <<>>]

\* jsonify({'error': msg}), code
Error(ep, code, msg) ==
    [resp |-> [endpoint |-> ep, code |-> code, error |-> msg, body |-> <<>>],
     locals |-> NoLocals]

\* row.get(name, default)
RowGet(df, row, name, default) ==
    IF HasCol(df, name) THEN row[ColIndex(df, name)] ELSE default

DashIfNa(w) == IF w.kind = "nan" THEN Str(Dash) ELSE w

WeekValue(df, row) == DashIfNa(RowGet(df, row, ColWeek, Str(Dash)))

CandidateRecord(df, row, withStatus) ==
    [name |-> row[ColIndex(df, ColName)],
     training_site |-> RowGet(df, row, ColSite, Str(Dash)),
     location |-> RowGet(df, row, ColLocation, Str(Dash)),
     week |-> WeekValue(df, row),
     level |-> RowGet(df, row, ColLevel, Str(Dash)),
     salary |-> parse_salary(RowGet(df, row, ColSalary, IntV(0)))]
    @@ (IF withStatus THEN [status |-> RowGet(df, row, ColStatus, Str(Dash))]
        ELSE <<>>)

\* jsonify(body), 200
Ok(ep, body, loc) ==
    [resp |-> [endpoint |-> ep, code |-> 200, error |-> "", body |-> body],
     locals |-> loc]

\* The loop over iterrows() and the jsonify of its list; row['MIT Name']
\* raises KeyError in the first pass when the table has no such column.
CandidateList(ep, df, sel, withStatus, loc) ==
    IF sel.rows # <<>> /\ ~HasCol(df, ColName) THEN Error(ep, 500, "'MIT Name'")
    ELSE Ok(ep, [i \in DOMAIN sel.rows |->
                    CandidateRecord(df, sel.rows[i], withStatus)],
            [loc EXCEPT !.listed = sel.index])

DashboardBody(source, offer_pending, offer_accepted, non_identified, ready_for_placement, in_training, jobs_df) ==
    Ok("/api/dashboard-data",
       [total_candidates |-> Len(non_identified.rows) + Len(offer_accepted.rows),
        ready_for_placement |-> Len(ready_for_placement.rows),
        in_training |-> Len(in_training.rows),
        offer_pending |-> Len(offer_pending.rows),
        open_jobs |-> IF ~IsEmpty(jobs_df) THEN Len(jobs_df.rows) ELSE 0,
        data_source |-> source],
       [computed |-> {"offer_pending", "offer_accepted", "non_identified",
                      "ready_for_placement", "in_training"},
        offer_pending |-> Labels(offer_pending),
        offer_accepted |-> Labels(offer_accepted),
        non_identified |-> Labels(non_identified),
        ready_for_placement |-> Labels(ready_for_placement),
        in_training |-> Labels(in_training),
        listed |-> <<>>])

DashboardFrom(ld, jobs_df) ==
    IF ld.raised THEN Error("/api/dashboard-data", 500, ld.exc)
    ELSE IF IsEmpty(ld.df) THEN Error("/api/dashboard-data", 500, "No data available")
    ELSE IF ~HasCol(ld.df, ColWeek) THEN Error("/api/dashboard-data", 500, "'Week'")
    ELSE DashboardBody(ld.source, OfferPendingRows(ld.df), OfferAcceptedRows(ld.df),
                       NonIdentifiedRows(ld.df), ReadyForPlacementRows(ld.df),
                       InTrainingRows(ld.df), jobs_df)

\* GET /api/dashboard-data
get_dashboard_data(sh, jsh) == DashboardFrom(load_data(sh), load_jobs_data(jsh))

ReadyList(df, ready_candidates) ==
    CandidateList("/api/candidates", df, ready_candidates, FALSE,
        [NoLocals EXCEPT !.computed = {"ready_for_placement"},
                         !.ready_for_placement = Labels(ready_candidates)])

\* The handler treating the empty table as the dashboard does.
CandidatesFromStrict(ld) ==
    IF ld.raised THEN Error("/api/candidates", 500, ld.exc)
    ELSE IF IsEmpty(ld.df) THEN Error("/api/candidates", 500, "No data available")
    ELSE IF ~HasCol(ld.df, ColWeek) THEN Error("/api/candidates", 500, "'Week'")
    ELSE ReadyList(ld.df, ReadyForPlacementRows(ld.df))

CandidatesFrom(ld) ==
    IF ld.raised THEN Error("/api/candidates", 500, ld.exc)
    ELSE IF IsEmpty(ld.df) THEN Ok("/api/candidates", <<>>, NoLocals)
    ELSE IF ~HasCol(ld.df, ColWeek) THEN Error("/api/candidates", 500, "'Week'")
    ELSE ReadyList(ld.df, ReadyForPlacementRows(ld.df))

\* GET /api/candidates
get_candidates(sh) == CandidatesFrom(load_data(sh))

\* The handler answering an unknown name with an empty profile.
ProfileOfUnchecked(df, candidate, name) ==
    IF IsEmpty(candidate)
    THEN Ok("/api/candidate/<name>", [scores |-> generate_mock_scores(name)], NoLocals)
    ELSE Ok("/api/candidate/<name>",
            CandidateRecord(df, candidate.rows[1], FALSE)
            @@ [scores |-> generate_mock_scores(name)],
            NoLocals)

ProfileOf(df, candidate, name) ==
    IF IsEmpty(candidate)
    THEN Error("/api/candidate/<name>", 404, "Candidate not found")
    ELSE Ok("/api/candidate/<name>",
            CandidateRecord(df, candidate.rows[1], FALSE)
            @@ [scores |-> generate_mock_scores(name)],
            NoLocals)

ProfileFrom(ld, name) ==
    IF ld.raised THEN Error("/api/candidate/<name>", 500, ld.exc)
    ELSE IF IsEmpty(ld.df)
    THEN Error("/api/candidate/<name>", 500, "No data available")
    ELSE IF ~HasCol(ld.df, ColName)
    THEN Error("/api/candidate/<name>", 500, "'MIT Name'")
    ELSE ProfileOf(ld.df,
                   Filter(ld.df, [i \in DOMAIN ld.df.rows |->
                             ld.df.rows[i][ColIndex(ld.df, ColName)] = Str(name)]),
                   name)

\* GET /api/candidate/<name>; the scores are those of a call that no other
\* thread disturbs (SpecScores interleaves the calls).
get_candidate_profile(sh, name) == ProfileFrom(load_data(sh), name)

AllList(df, non_identified, offer_accepted) ==
    CandidateList("/api/all-candidates", df,
        Concat(non_identified, offer_accepted), TRUE,
        [NoLocals EXCEPT !.computed = {"offer_accepted", "non_identified"},
                         !.offer_accepted = Labels(offer_accepted),
                         !.non_identified = Labels(non_identified)])

AllFrom(ld) ==
    IF ld.raised THEN Error("/api/all-candidates", 500, ld.exc)
    ELSE IF IsEmpty(ld.df) THEN Ok("/api/all-candidates", <<>>, NoLocals)
    ELSE AllList(ld.df, NonIdentifiedRows(ld.df), OfferAcceptedRows(ld.df))

\* GET /api/all-candidates
get_all_candidates(sh) == AllFrom(load_data(sh))

InTrainingList(df, in_training) ==
    CandidateList("/api/in-training-candidates", df, in_training, FALSE,
        [NoLocals EXCEPT !.computed = {"in_training"},
                         !.in_training = Labels(in_training)])

InTrainingFrom(ld) ==
    IF ld.raised THEN Error("/api/in-training-candidates", 500, ld.exc)
    ELSE IF IsEmpty(ld.df) THEN Ok("/api/in-training-candidates", <<>>, NoLocals)
    ELSE IF ~HasCol(ld.df, ColWeek)
    THEN Error("/api/in-training-candidates", 500, "'Week'")
    ELSE InTrainingList(ld.df, InTrainingRows(ld.df))

\* GET /api/in-training-candidates
get_in_training_candidates(sh) == InTrainingFrom(load_data(sh))

OfferPendingList(df, offer_pending) ==
    CandidateList("/api/offer-pending-candidates", df, offer_pending, FALSE,
        [NoLocals EXCEPT !.computed = {"offer_pending"},
                         !.offer_pending = Labels(offer_pending)])

OfferPendingFrom(ld) ==
    IF ld.raised THEN Error("/api/offer-pending-candidates", 500, ld.exc)
    ELSE IF IsEmpty(ld.df) THEN Ok("/api/offer-pending-candidates", <<>>, NoLocals)
    ELSE OfferPendingList(ld.df, OfferPendingRows(ld.df))

\* GET /api/offer-pending-candidates
get_offer_pending_candidates(sh) == OfferPendingFrom(load_data(sh))

JobRecord(df, row) ==
    [job_title |-> RowGet(df, row, ColJobTitle, Str(Dash)),
     account |-> RowGet(df, row, ColAccount, Str(Dash)),
     city |-> RowGet(df, row, ColCity, Str(Dash)),
     state |-> RowGet(df, row, ColState, Str(Dash)),
     vertical |-> RowGet(df, row, ColVert, Str(Dash)),
     salary |-> RowGet(df, row, ColSalary, Str(Dash))]

PositionsFrom(jobs_df) ==
    Ok("/api/open-positions",
       IF IsEmpty(jobs_df) THEN <<>>
       ELSE [i \in DOMAIN jobs_df.rows |-> JobRecord(jobs_df, jobs_df.rows[i])],
       IF IsEmpty(jobs_df) THEN NoLocals
       ELSE [NoLocals EXCEPT !.listed = jobs_df.index])

\* GET /api/open-positions
get_open_positions(jsh) == PositionsFrom(load_jobs_data(jsh))

\* GET /api/health
health_check ==
    [resp |-> [endpoint |-> "/api/health", code |-> 200, error |-> "",
               body |-> [status |-> "healthy",
                         message |-> "MIT Dashboard API is running"]],
     locals |-> NoLocals]

\* GET /
serve_dashboard ==
    [resp |-> [endpoint |-> "/", code |-> 200, error |-> "", body |-> "index.html"],
     locals |-> NoLocals]

----------------------------------------------------------------------------
(* The sheets a request may find published. *)

RawOfferPendingCaps == <<"O", "f", "f", "e", "r", " ", "P", "e", "n", "d", "i", "n", "g", " ">>
RawTrainingCaps == <<" ", "T", "R", "A", "I", "N", "I", "N", "G">>
RawStatusHeader == <<"S", "t", "a", "t", "u", "s", " ">>
SiteA == <<"S", "i", "t", "e", " ", "A">>
Dallas == <<"D", "a", "l", "l", "a", "s">>
LevelTwo == <<"L", "2">>
SalaryText == <<"$", "1", ",", "2", "0", "0">>
Tbd == <<"T", "B", "D">>
TrueText == <<"T", "R", "U", "E">>
Manager == <<"M", "a", "n", "a", "g", "e", "r">>
Acme == <<"A", "c", "m", "e">>
UnnamedColumn == <<"U", "n", "n", "a", "m", "e", "d", ":", " ", "2">>

FailedFetch == [ok |-> FALSE, header |-> <<>>, rows |-> <<>>]

SeqsUpTo(S, n) == UNION {[1..k -> S] : k \in 0..n}

\* MIT Name is the key of a candidate: the row at each place has its own.
NameAt(i) == IF i % 2 = 1 THEN JaneDoe ELSE JohnSmith

CandidateHeader ==
    <<ColName, RawStatusHeader, ColWeek, ColSite, ColLocation, ColLevel, ColSalary>>

RawStatuses ==
    {OfferPending, RawOfferPendingCaps, OfferAccepted, Training, RawTrainingCaps,
     Unassigned, FreeAgent, PositionIdentified, <<>>}

\* Sheets that differ in the status and the week of their rows.
StatusSheets ==
    {FailedFetch} \cup
    {[ok |-> TRUE, header |-> CandidateHeader,
      rows |-> [i \in DOMAIN r |->
                  <<NameAt(i), r[i][1], r[i][2], SiteA, Dallas, LevelTwo, SalaryText>>]] :
        r \in SeqsUpTo({Training, RawTrainingCaps, OfferPending, OfferAccepted,
                         Unassigned, PositionIdentified}
                        \X {<<>>, <<"6">>, <<"7">>}, MaxRows)}

\* Sheets that differ in what their Week cells hold.
WeekSheets ==
    {[ok |-> TRUE, header |-> CandidateHeader,
      rows |-> [i \in DOMAIN r |->
                  <<NameAt(i), r[i][1], r[i][2], SiteA, Dallas, LevelTwo, SalaryText>>]] :
        r \in SeqsUpTo({Training, Unassigned, OfferPending}
                        \X {<<>>, <<"6">>, <<"7">>, <<"6", ".", "5">>, Tbd, TrueText},
                       MaxRows)}

\* Sheets that differ in the columns they have and in which cells are blank.
CandidateHeaders ==
    {CandidateHeader,
     <<ColName, ColWeek, ColSite, ColLocation, ColLevel, ColSalary>>,
     <<ColName, ColStatus, ColSite, ColLocation, ColLevel, ColSalary>>,
     <<ColStatus, ColWeek, ColSite, ColLocation, ColLevel, ColSalary>>,
     <<ColName, ColStatus, ColWeek>>}

FieldCells ==
    {[name |-> JaneDoe, status |-> Training, week |-> <<"7">>,
      site |-> IF "site" \in blank THEN <<>> ELSE SiteA,
      location |-> IF "location" \in blank THEN <<>> ELSE Dallas,
      level |-> IF "level" \in blank THEN <<>> ELSE LevelTwo,
      salary |-> IF "salary" \in blank THEN <<>> ELSE SalaryText] :
        blank \in {{}, {"site"}, {"location"}, {"level"}, {"salary"},
                   {"site", "location", "level", "salary"}}}
    \cup {[name |-> <<>>, status |-> <<>>, week |-> <<>>, site |-> <<>>,
           location |-> <<>>, level |-> <<>>, salary |-> <<>>],
          [name |-> JohnSmith, status |-> <<>>, week |-> <<>>,
           site |-> SiteA, location |-> Dallas, level |-> LevelTwo,
           salary |-> <<"5", "0", "0", "0", "0">>],
          [name |-> JohnSmith, status |-> OfferPending, week |-> <<"6">>,
           site |-> SiteA, location |-> <<>>, level |-> LevelTwo,
           salary |-> <<"5", "0", "0", "0", "0">>]}

CellOf(c, col) ==
    CASE col = ColName -> c.name
      [] Strip(col) = ColStatus -> c.status
      [] col = ColWeek -> c.week
      [] col = ColSite -> c.site
      [] col = ColLocation -> c.location
      [] col = ColLevel -> c.level
      [] col = ColSalary -> c.salary

FieldSheets ==
    {[ok |-> TRUE, header |-> h,
      rows |-> [i \in DOMAIN r |-> [j \in DOMAIN h |-> CellOf(r[i], h[j])]]] :
        h \in CandidateHeaders, r \in SeqsUpTo(FieldCells, MaxRows)}

JobHeaders ==
    {<<ColJobTitle, ColAccount, ColCity, ColState, ColVert, ColSalary>>,
     <<ColJobTitle, UnnamedColumn, ColAccount, ColJvLink, ColJvId, ColSalary>>,
     <<UnnamedColumn, ColJvId>>}

JobCells ==
    [title : {<<>>, Manager}, account : {<<>>, Acme}, salary : {<<>>, <<"5", "0", "0", "0", "0">>}]

JobCellOf(c, col) ==
    CASE col = ColJobTitle -> c.title
      [] col = ColAccount -> c.account
      [] col = ColSalary -> c.salary
      [] col = ColCity -> Dallas
      [] col = ColState -> <<"T", "X">>
      [] col = ColVert -> <<>>
      [] col = UnnamedColumn -> <<>>
      [] col = ColJvLink -> <<"j", "v">>
      [] col = ColJvId -> <<"1">>

JobSheets ==
    {FailedFetch} \cup
    {[ok |-> TRUE, header |-> h,
      rows |-> [i \in DOMAIN r |-> [j \in DOMAIN h |-> JobCellOf(r[i], h[j])]]] :
        h \in JobHeaders, r \in SeqsUpTo(JobCells, MaxJobs)}

OneJobSheet ==
    [ok |-> TRUE,
     header |-> <<ColJobTitle, ColAccount, ColCity, ColState, ColVert, ColSalary>>,
     rows |-> <<<<Manager, Acme, Dallas, <<"T", "X">>, <<>>, <<"5", "0", "0", "0", "0">>>>>>]

OneCandidateSheet ==
    [ok |-> TRUE, header |-> CandidateHeader,
     rows |-> <<<<JaneDoe, Training, <<"7">>, SiteA, Dallas, LevelTwo, SalaryText>>>>]

RequestNames == {JaneDoe, JohnSmith, BobRay}

----------------------------------------------------------------------------
(* The requests: each handler runs from its fetch to its response. *)

Threads == 1..NumThreads

NoResponse == [endpoint |-> "", code |-> 0, error |-> "", body |-> <<>>]

ScoresIdle ==
    /\ pc = [t \in Threads |-> "idle"]
    /\ arg = [t \in Threads |-> <<>>]
    /\ scores = [t \in Threads |-> <<>>]
    /\ returned = [t \in Threads |-> <<>>]

SalaryIdle ==
    /\ salaryIn = NaN
    /\ salaryOut = [called |-> FALSE, value |-> Zero]

\* The worker that handles a request is idle when it takes it; Answer hands
\* the handler's return value to the WSGI server.
Answer(r) ==
    /\ resp = NoResponse
    /\ resp' = r.resp
    /\ locals' = r.locals
    /\ UNCHANGED <<sheet, jobsSheet, pc, arg, scores, returned, salaryIn, salaryOut>>

\* The response to a request for /api/candidate/<name>, with that name.
Named(r, name) == [r EXCEPT !.resp = @ @@ [name |-> name]]

GetDashboardData == Answer(get_dashboard_data(sheet, jobsSheet)) /\ UNCHANGED rng

GetCandidates == Answer(get_candidates(sheet)) /\ UNCHANGED rng

\* generate_mock_scores ends in random.seed(): when the profile is built the
\* generator is left seeded from the system's entropy.
GetCandidateProfile ==
    \E name \in RequestNames :
        /\ Answer(Named(get_candidate_profile(sheet, name), name))
        /\ IF resp'.code = 200
           THEN \E x \in EntropySeeds : rng' = Seeded(x)
           ELSE UNCHANGED rng

GetAllCandidates == Answer(get_all_candidates(sheet)) /\ UNCHANGED rng

GetInTrainingCandidates == Answer(get_in_training_candidates(sheet)) /\ UNCHANGED rng

GetOfferPendingCandidates ==
    Answer(get_offer_pending_candidates(sheet)) /\ UNCHANGED rng

GetOpenPositions == Answer(get_open_positions(jobsSheet)) /\ UNCHANGED rng

HealthCheck == Answer(health_check) /\ UNCHANGED rng

ServeDashboard == Answer(serve_dashboard) /\ UNCHANGED rng

\* The WSGI server sends the response; the worker is idle again.
Deliver ==
    /\ resp # NoResponse
    /\ resp' = NoResponse
    /\ locals' = NoLocals
    /\ UNCHANGED <<sheet, jobsSheet, rng, pc, arg, scores, returned,
                   salaryIn, salaryOut>>

Next ==
    \/ Deliver
    \/ GetDashboardData
    \/ GetCandidates
    \/ GetCandidateProfile
    \/ GetAllCandidates
    \/ GetInTrainingCandidates
    \/ GetOfferPendingCandidates
    \/ GetOpenPositions
    \/ HealthCheck
    \/ ServeDashboard

InitServer ==
    /\ resp = NoResponse
    /\ locals = NoLocals
    /\ \E x \in EntropySeeds : rng = Seeded(x)
    /\ ScoresIdle

Init ==
    /\ sheet \in StatusSheets
    /\ jobsSheet = OneJobSheet
    /\ InitServer
    /\ SalaryIdle

Spec == Init /\ [][Next]_vars

InitWeeks ==
    /\ sheet \in WeekSheets
    /\ jobsSheet = OneJobSheet
    /\ InitServer
    /\ SalaryIdle

SpecWeeks == InitWeeks /\ [][Next]_vars

InitFields ==
    /\ \/ sheet \in FieldSheets /\ jobsSheet = OneJobSheet
       \/ sheet \in {FailedFetch, OneCandidateSheet} /\ jobsSheet \in JobSheets
    /\ InitServer
    /\ SalaryIdle

SpecFields == InitFields /\ [][Next]_vars

\* Sheets that differ in the spelling of the status of their rows.
SpellingSheets ==
    {[ok |-> TRUE, header |-> CandidateHeader,
      rows |-> [i \in DOMAIN r |->
                  <<NameAt(i), r[i][1], r[i][2], SiteA, Dallas, LevelTwo, SalaryText>>]] :
        r \in SeqsUpTo(RawStatuses \X {<<"6">>, <<"7">>}, MaxRows)}

InitSpelling ==
    /\ sheet \in SpellingSheets
    /\ jobsSheet = OneJobSheet
    /\ InitServer
    /\ SalaryIdle

SpecSpelling == InitSpelling /\ [][Next]_vars

----------------------------------------------------------------------------
(* parse_salary called on the values a caller may hand it. *)

SalaryChars == {"$", ",", " ", "-", ".", "1", "5", "x"}

SalaryInputs ==
    {NaN, OtherV, IntV(0), IntV(50000), IntV(-5), FloatV(12345, 1), FloatV(-15, 1),
     BoolV(TRUE), Str(<<"$", "1", ",", "2", "3", "4", ".", "5", "0">>)}
    \cup {Str(t) : t \in SeqsUpTo(SalaryChars, MaxLen)}

ParseSalary ==
    /\ ~salaryOut.called
    /\ salaryOut' = [called |-> TRUE, value |-> parse_salary(salaryIn)]
    /\ UNCHANGED <<sheet, jobsSheet, resp, locals, rng, pc, arg, scores, returned,
                   salaryIn>>

NextSalary == ParseSalary

InitSalary ==
    /\ sheet = FailedFetch
    /\ jobsSheet = FailedFetch
    /\ InitServer
    /\ salaryIn \in SalaryInputs
    /\ salaryOut = [called |-> FALSE, value |-> Zero]

SpecSalary == InitSalary /\ [][NextSalary]_vars

----------------------------------------------------------------------------
(* generate_mock_scores called by the threads that handle profile requests *)
(* at the same time: each statement is a step, and the steps of different  *)
(* threads interleave on the one generator of the random module.           *)

ScoreNames == {JaneDoe, JohnSmith}

UnchangedApi == UNCHANGED <<sheet, jobsSheet, resp, locals, salaryIn, salaryOut>>

\* mock_scores = generate_mock_scores(name): the call, and the seed computed.
Call(t) ==
    /\ pc[t] = "idle"
    /\ Len(returned[t]) < MaxCalls
    /\ \E name \in ScoreNames : arg' = [arg EXCEPT ![t] = name]
    /\ pc' = [pc EXCEPT ![t] = "seed"]
    /\ scores' = [scores EXCEPT ![t] = <<>>]
    /\ UNCHANGED <<rng, returned>>
    /\ UnchangedApi

\* random.seed(seed)
Seed(t) ==
    /\ pc[t] = "seed"
    /\ rng' = Seeded(Md5Seed(arg[t]))
    /\ pc' = [pc EXCEPT ![t] = "draw"]
    /\ UNCHANGED <<arg, scores, returned>>
    /\ UnchangedApi

\* One entry of the scores dictionary: a draw from the shared generator.
Draw(t) ==
    /\ pc[t] = "draw"
    /\ scores' = [scores EXCEPT ![t] = Append(@, DrawOf(rng, Len(@) + 1))]
    /\ rng' = Advance(rng)
    /\ pc' = [pc EXCEPT ![t] = IF Len(scores[t]) + 1 = NumDraws THEN "reset"
                                ELSE "draw"]
    /\ UNCHANGED <<arg, returned>>
    /\ UnchangedApi

\* random.seed()
Reseed(t) ==
    /\ pc[t] = "reset"
    /\ \E x \in EntropySeeds : rng' = Seeded(x)
    /\ pc' = [pc EXCEPT ![t] = "return"]
    /\ UNCHANGED <<arg, scores, returned>>
    /\ UnchangedApi

\* return scores
Return(t) ==
    /\ pc[t] = "return"
    /\ returned' = [returned EXCEPT ![t] =
                      Append(@, [name |-> arg[t], scores |-> Bundle(scores[t])])]
    /\ pc' = [pc EXCEPT ![t] = "idle"]
    /\ UNCHANGED <<rng, arg, scores>>
    /\ UnchangedApi

NextScores ==
    \E t \in Threads : Call(t) \/ Seed(t) \/ Draw(t) \/ Reseed(t) \/ Return(t)

InitScores ==
    /\ sheet = FailedFetch
    /\ jobsSheet = FailedFetch
    /\ InitServer
    /\ SalaryIdle

SpecScores == InitScores /\ [][NextScores]_vars

----------------------------------------------------------------------------
(* What the claims speak of, read off the published sheet itself. *)

Dashboard == "/api/dashboard-data"
ListEndpoints ==
    {"/api/candidates", "/api/all-candidates", "/api/in-training-candidates",
     "/api/offer-pending-candidates"}
Profile == "/api/candidate/<name>"

\* The place in the sheet's header of the column named col, 0 when absent.
Place(sh, col) ==
    IF \E j \in DOMAIN sh.header : Strip(sh.header[j]) = col
    THEN CHOOSE j \in DOMAIN sh.header : Strip(sh.header[j]) = col
    ELSE 0

\* The text of row i under column col; Missing(sh, i, col) when the sheet has
\* no such column or the cell is blank.
Missing(sh, i, col) == Place(sh, col) = 0 \/ sh.rows[i][Place(sh, col)] = <<>>
RawCell(sh, i, col) == sh.rows[i][Place(sh, col)]

\* The status of row i as the classifier is meant to see it.
StatusSeen(sh, i) ==
    IF Missing(sh, i, ColStatus) THEN <<"n", "a", "n">>
    ELSE Lower(Strip(RawCell(sh, i, ColStatus)))

Selections ==
    [offer_pending |-> locals.offer_pending, offer_accepted |-> locals.offer_accepted,
     non_identified |-> locals.non_identified,
     ready_for_placement |-> locals.ready_for_placement,
     in_training |-> locals.in_training]

\* C1: a non-empty candidate table gets a dashboard whose total_candidates is
\* the number of rows with a non-identified status plus the number of rows
\* with status "offer accepted", whatever their weeks.
TotalCandidatesIsSum ==
    (resp.endpoint = Dashboard /\ sheet.ok /\ sheet.rows # <<>>) =>
        /\ resp.code = 200
        /\ resp.body.total_candidates =
              Cardinality({i \in DOMAIN sheet.rows :
                              StatusSeen(sheet, i) \in {FreeAgent, Unassigned, Training}})
              + Cardinality({i \in DOMAIN sheet.rows :
                                StatusSeen(sheet, i) = OfferAccepted})

TotalCandidatesIsSumWitness ==
    /\ resp.endpoint = Dashboard /\ resp.code = 200
    /\ resp.body.total_candidates = 2
    /\ Len(sheet.rows) = 2
    /\ StatusSeen(sheet, 1) = OfferAccepted /\ StatusSeen(sheet, 2) = Training
    /\ RawCell(sheet, 1, ColWeek) # RawCell(sheet, 2, ColWeek)

\* C2: no row is selected as ready for placement and also as offer pending,
\* offer accepted or in training, by the dashboard or by the list endpoints.
ReadyIsDisjoint ==
    /\ (resp.endpoint = Dashboard /\ resp.code = 200) =>
          locals.ready_for_placement
            \cap (locals.offer_pending \cup locals.offer_accepted
                  \cup locals.in_training) = {}
    /\ (resp.endpoint = "/api/candidates" /\ resp.code = 200) =>
          \A i \in locals.ready_for_placement :
              /\ StatusSeen(sheet, i) \notin {OfferPending, OfferAccepted}
              /\ i \notin Labels(InTrainingRows(load_data(sheet).df))
    /\ (resp.endpoint = "/api/in-training-candidates" /\ resp.code = 200) =>
          \A i \in locals.in_training :
              i \notin Labels(ReadyForPlacementRows(load_data(sheet).df))
    /\ (resp.endpoint = "/api/offer-pending-candidates" /\ resp.code = 200) =>
          \A i \in locals.offer_pending :
              i \notin Labels(ReadyForPlacementRows(load_data(sheet).df))

ReadyIsDisjointWitness ==
    /\ resp.endpoint = Dashboard /\ resp.code = 200
    /\ locals.ready_for_placement # {}
    /\ \E i \in DOMAIN sheet.rows :
          /\ RawCell(sheet, i, ColWeek) = <<"7">>
          /\ StatusSeen(sheet, i) = OfferPending
          /\ i \in locals.offer_pending

\* C3: when load_data hands the handler an empty table (the fetch failed, or
\* the sheet has no row that is not blank), the dashboard answers 500 with an
\* error body and each candidate list endpoint answers 200 with an empty list.
EmptyTableAnswers ==
    (~load_data(sheet).raised /\ IsEmpty(load_data(sheet).df)) =>
        /\ resp.endpoint = Dashboard => resp.code = 500 /\ resp.error # ""
        /\ resp.endpoint \in ListEndpoints =>
              resp.code = 200 /\ resp.error = "" /\ resp.body = <<>>

EmptyTableAnswersWitness ==
    /\ ~sheet.ok
    /\ resp.endpoint = "/api/candidates" /\ resp.code = 200 /\ resp.body = <<>>

\* The rows of the sheet whose MIT Name is exactly name.
Matches(sh, name) ==
    {i \in DOMAIN sh.rows : ~Missing(sh, i, ColName) /\ RawCell(sh, i, ColName) = name}

\* C4 as stated: a profile request gets 404 whenever no row of the candidate
\* table has exactly the requested name.
NotFoundWheneverNoMatch ==
    (resp.endpoint = Profile /\ Matches(sheet, resp.name) = {}) => resp.code = 404

\* C4 as amended: a profile request gets 404 with an error body whenever the
\* loaded table is not empty and has an MIT Name column but no row with
\* exactly the requested name; when the table could not be loaded or is
\* empty it gets 500.
NotFoundInNonEmptyTable ==
    (resp.endpoint = Profile /\ Matches(sheet, resp.name) = {}) =>
        IF /\ ~load_data(sheet).raised /\ ~IsEmpty(load_data(sheet).df)
           /\ Place(sheet, ColName) # 0
        THEN resp.code = 404 /\ resp.error = "Candidate not found"
        ELSE resp.code = 500 /\ resp.error # ""

NotFoundInNonEmptyTableWitness ==
    /\ resp.endpoint = Profile /\ resp.code = 404
    /\ resp.name = BobRay
    /\ Len(sheet.rows) = 2

\* C5: calls of generate_mock_scores with the same name return the same
\* bundle, however the calls of concurrently handled requests interleave.
ScoresDependOnNameOnly ==
    \A t1 \in Threads, t2 \in Threads :
        \A i \in DOMAIN returned[t1], j \in DOMAIN returned[t2] :
            returned[t1][i].name = returned[t2][j].name =>
                returned[t1][i].scores = returned[t2][j].scores

\* C6: load_data never raises to its caller: a sheet that cannot be fetched,
\* or that has no Status column, makes it return the empty table with the
\* label "Error".
LoadDataNeverRaises ==
    (resp.endpoint \in ListEndpoints \cup {Dashboard, Profile}
     /\ (~sheet.ok \/ Place(sheet, ColStatus) = 0)) =>
        /\ ~load_data(sheet).raised
        /\ load_data(sheet).df = EmptyDf
        /\ load_data(sheet).source = "Error"
        /\ resp.endpoint \in ListEndpoints => resp.code = 200 /\ resp.body = <<>>

\* Whether parse_salary's argument is absent, a number, or text that float()
\* takes once "$", "," and the surrounding whitespace are gone.
SalaryCleaned == Strip(Remove(Remove(salaryIn.s, "$"), ","))
SalaryIsNumber == salaryIn.kind \in {"int", "float", "bool"}
SalaryParses == salaryIn.kind = "str" /\ FloatParse(SalaryCleaned).ok

\* C7 as stated: parse_salary returns a non-negative number for every input,
\* and 0 whenever the value is absent or does not parse.
SalaryNeverNegative ==
    salaryOut.called =>
        /\ salaryOut.value.n >= 0
        /\ (~SalaryIsNumber /\ ~SalaryParses) => salaryOut.value.n = 0

\* C7 as amended: parse_salary returns 0 whenever the value is absent or does
\* not parse, and a negative number only for a negative number or for text
\* that spells one, which it returns as that number.
SalaryZeroUnlessNumber ==
    salaryOut.called =>
        /\ (~SalaryIsNumber /\ ~SalaryParses) => salaryOut.value.n = 0
        /\ salaryOut.value.n < 0 =>
              \/ SalaryIsNumber /\ salaryIn.n < 0 /\ salaryOut.value = ToFloat(salaryIn)
              \/ /\ SalaryParses /\ Head(SalaryCleaned) = "-"
                 /\ salaryOut.value = FloatParse(SalaryCleaned).v
        /\ salaryIn = Str(<<"$", "1", ",", "2", "3", "4", ".", "5", "0">>) =>
              salaryOut.value = FloatV(12345, 1)

SalaryZeroUnlessNumberWitness ==
    /\ salaryOut.called
    /\ salaryIn = Str(<<"-", "$", "1", "5">>)
    /\ salaryOut.value.n = -15

\* The Week cell holds a number: digits with an optional sign and fraction.
IsNumberText(t) ==
    \E k \in 1..Len(t) :
        /\ \A i \in 1..Len(t) : t[i] \in {"0", "1", "2", "3", "4", "5", "6", "7", "8", "9"}
                                \/ (i = 1 /\ t[i] = "-") \/ (i = k /\ t[i] = ".")
        /\ t[k] \notin {"-"}

\* C8: a row whose week is missing or not numeric is never selected as ready
\* for placement or as in training.
NonNumericWeekNeverSelected ==
    \A i \in DOMAIN sheet.rows :
        (Missing(sheet, i, ColWeek) \/ ~IsNumberText(RawCell(sheet, i, ColWeek))) =>
            i \notin locals.ready_for_placement \cup locals.in_training

CandidateFields ==
    [training_site |-> ColSite, location |-> ColLocation, level |-> ColLevel,
     week |-> ColWeek]

JobFields ==
    [job_title |-> ColJobTitle, account |-> ColAccount, city |-> ColCity,
     state |-> ColState, vertical |-> ColVert, salary |-> ColSalary]

\* C9: in every record of a candidate list or of the open positions, a field
\* whose column is absent or whose cell is blank in the row is the placeholder.
MissingFieldIsPlaceholder ==
    /\ (resp.endpoint \in ListEndpoints /\ resp.code = 200) =>
          \A k \in DOMAIN resp.body : \A f \in DOMAIN CandidateFields :
              Missing(sheet, locals.listed[k], CandidateFields[f]) =>
                  resp.body[k][f] = Str(Dash)
    /\ (resp.endpoint = "/api/all-candidates" /\ resp.code = 200) =>
          \A k \in DOMAIN resp.body :
              Missing(sheet, locals.listed[k], ColStatus) =>
                  resp.body[k].status = Str(Dash)
    /\ (resp.endpoint = "/api/open-positions" /\ resp.code = 200) =>
          \A k \in DOMAIN resp.body : \A f \in DOMAIN JobFields :
              Missing(jobsSheet, locals.listed[k], JobFields[f]) =>
                  resp.body[k][f] = Str(Dash)

UpperOf(c) ==
    IF \E i \in DOMAIN LowerChars : LowerChars[i] = c
    THEN UpperChars[CHOOSE i \in DOMAIN LowerChars : LowerChars[i] = c]
    ELSE c

\* The places of a that hold something other than whitespace.
Ink(a) == {i \in DOMAIN a : a[i] \notin {" ", "\t"}}
FirstInk(a) == CHOOSE i \in Ink(a) : \A j \in Ink(a) : i <= j
LastInk(a) == CHOOSE i \in Ink(a) : \A j \in Ink(a) : j <= i

\* The text of a from place lo to place hi, in upper case.
Shout(a, lo, hi) == [k \in 1..(hi - lo + 1) |-> UpperOf(a[lo + k - 1])]

\* a and b differ only in letter case and in whitespace around them.
SameSpelling(a, b) ==
    IF Ink(a) = {} \/ Ink(b) = {} THEN Ink(a) = Ink(b)
    ELSE Shout(a, FirstInk(a), LastInk(a)) = Shout(b, FirstInk(b), LastInk(b))

\* C10: two rows with the same week whose statuses differ only in letter case
\* or surrounding whitespace are in exactly the same selections.
SpellingDoesNotMatter ==
    (sheet.ok /\ locals.computed # {} /\ Place(sheet, ColWeek) # 0) =>
        \A i \in DOMAIN sheet.rows, j \in DOMAIN sheet.rows :
            (/\ i < j
             /\ RawCell(sheet, i, ColWeek) = RawCell(sheet, j, ColWeek)
             /\ ~Missing(sheet, i, ColStatus) /\ ~Missing(sheet, j, ColStatus)
             /\ SameSpelling(RawCell(sheet, i, ColStatus), RawCell(sheet, j, ColStatus))) =>
                \A b \in locals.computed : i \in Selections[b] <=> j \in Selections[b]

SpellingDoesNotMatterWitness ==
    /\ resp.endpoint = Dashboard /\ resp.code = 200
    /\ Len(sheet.rows) = 2
    /\ RawCell(sheet, 1, ColStatus) = RawOfferPendingCaps
    /\ RawCell(sheet, 2, ColStatus) = OfferPending
    /\ RawCell(sheet, 1, ColWeek) = RawCell(sheet, 2, ColWeek)
    /\ locals.offer_pending = {1, 2}

============================================================================
